---- MODULE Spec2Model ----
(***************************************************************************)
(* Car Rental API (src/main.py, src/schemas.py): the booking admission     *)
(* check create_booking and the endpoints around it, over a document store *)
(* with the collections "car" and "booking".                               *)
(*                                                                         *)
(* Strings are sequences of one-character strings, so that parsing an id   *)
(* and comparing serialized dates are computed character by character.     *)
(* A date is a record [year, month, day], as datetime.date holds it.       *)
(***************************************************************************)
EXTENDS Integers, Sequences, FiniteSets, TLC

VARIABLES car, booking, pc, req, resp, ops, requests

vars == <<car, booking, pc, req, resp, ops, requests>>

(* ------------------------------ bounds -------------------------------- *)

\* admission requests the service accepts in one behaviour
MaxRequests == 2
\* car documents the store comes to hold
MaxCars == 2

\* the request handlers that may run at the same time
Workers == {"w1", "w2"}

\* the pool hands a request to its first idle handler
Before(v, w) == v = "w1" /\ w = "w2"

(* ---------------------------- characters ------------------------------ *)

DecDigits == <<"0", "1", "2", "3", "4", "5", "6", "7", "8", "9">>
HexLower == DecDigits \o <<"a", "b", "c", "d", "e", "f">>
HexUpper == DecDigits \o <<"A", "B", "C", "D", "E", "F">>

Range(s) == {s[i] : i \in 1..Len(s)}

IndexOf(s, c) == CHOOSE i \in 1..Len(s) : s[i] = c

\* the code point of a character of a serialized date
Ord(c) == IF c = "-" THEN 45 ELSE 47 + IndexOf(DecDigits, c)

RECURSIVE StrLe(_, _)
\* a <= b for strings, code point by code point, a proper prefix being smaller
StrLe(a, b) ==
    IF a = <<>> THEN TRUE
    ELSE IF b = <<>> THEN FALSE
    ELSE IF Ord(Head(a)) < Ord(Head(b)) THEN TRUE
    ELSE IF Ord(Head(a)) > Ord(Head(b)) THEN FALSE
    ELSE StrLe(Tail(a), Tail(b))

StrGe(a, b) == StrLe(b, a)

(* ------------------------------ ObjectId ------------------------------ *)

\* hex characters of the string form of an ObjectId (12 bytes)
OidHexLen == 24

\* ObjectId.is_valid on a str: 24 characters, each a hex digit of either case
ObjectIdIsValid(s) ==
    /\ Len(s) = OidHexLen
    /\ \A i \in 1..Len(s) : s[i] \in Range(HexLower) \cup Range(HexUpper)

HexValue(c) ==
    IF c \in Range(HexLower) THEN IndexOf(HexLower, c) - 1
    ELSE IndexOf(HexUpper, c) - 1

\* ObjectId(s): the bytes the hex string denotes, kept as its 24 nibbles
ObjectId(s) == [i \in 1..Len(s) |-> HexValue(s[i])]

\* str(oid): lower-case hex
OidStr(oid) == [i \in 1..Len(oid) |-> HexLower[oid[i] + 1]]

\* the n-th identifier the store generates for a collection; fill is the
\* collection's leading nibble (store-generated ids are unique per collection)
NewOid(fill, n) ==
    [i \in 1..OidHexLen |->
        IF i = OidHexLen THEN n % 16
        ELSE IF i = OidHexLen - 1 THEN (n \div 16) % 16
        ELSE fill]

CarOid(n) == NewOid(10, n)
BookingOid(n) == NewOid(11, n)

(* -------------------------------- dates ------------------------------- *)

Date(y, m, d) == [year |-> y, month |-> m, day |-> d]

\* date.__lt__ / __le__: comparison of (year, month, day)
DateLt(a, b) ==
    \/ a.year < b.year
    \/ a.year = b.year /\ a.month < b.month
    \/ a.year = b.year /\ a.month = b.month /\ a.day < b.day

DateLe(a, b) == a = b \/ DateLt(a, b)

IsLeap(y) == y % 4 = 0 /\ (y % 100 # 0 \/ y % 400 = 0)

DaysBeforeMonth == <<0, 31, 59, 90, 120, 151, 181, 212, 243, 273, 304, 334>>

\* date.toordinal(): days since 0001-01-01, that day being 1
ToOrdinal(a) ==
    LET y == a.year - 1
    IN  y * 365 + (y \div 4) - (y \div 100) + (y \div 400)
        + DaysBeforeMonth[a.month]
        + (IF a.month > 2 /\ IsLeap(a.year) THEN 1 ELSE 0)
        + a.day

\* (a - b).days
DaysBetween(a, b) == ToOrdinal(a) - ToOrdinal(b)

\* n >= 0 in decimal without leading zeros
Pad_NoZeros(n, w) ==
    LET k == CHOOSE k \in 1..w : n < 10 ^ k /\ (k = 1 \/ n >= 10 ^ (k - 1))
    IN  [i \in 1..k |-> DecDigits[((n \div (10 ^ (k - i))) % 10) + 1]]

\* n >= 0 in decimal, zero-padded on the left to width w
Pad(n, w) == [i \in 1..w |-> DecDigits[((n \div (10 ^ (w - i))) % 10) + 1]]

\* date.isoformat(): YYYY-MM-DD
IsoFormat(a) == Pad(a.year, 4) \o <<"-">> \o Pad(a.month, 2) \o <<"-">> \o Pad(a.day, 2)

(* ------------------------------ requests ------------------------------ *)

\* the strings a client may send as car_id
UpperStr(s) == [i \in 1..Len(s) |-> IF s[i] \in Range(HexLower) THEN HexUpper[IndexOf(HexLower, s[i])] ELSE s[i]]

NotHexId == [i \in 1..OidHexLen |-> IF i = 1 THEN "g" ELSE "0"]
ShortId == <<"a", "1">>

\* a well-formed id no car document carries
UnknownId == OidStr(CarOid(MaxCars + 1))

Customers == {"Ann"}

Makes == {"Skoda"}

\* the Booking model of schemas.py, as the request body is parsed into it
Booking(ids, dates) ==
    [car_id : ids, customer_name : Customers,
     start_date : dates, end_date : dates]

\* the requests of the concurrent service
CarIdInputs == {OidStr(CarOid(1)), UpperStr(OidStr(CarOid(1))), OidStr(CarOid(2))}
DateInputs == {Date(2024, 6, 1), Date(2024, 6, 30), Date(2024, 7, 2)}

\* the requests of the service handling one request after the other
CarIdSerial == CarIdInputs \cup {ShortId}
DateSerial == {Date(2024, 6, 1), Date(2024, 6, 30), Date(2024, 7, 1), Date(2024, 7, 2)}

\* the requests of a single admission: month ends, a leap and a common
\* February, a year's end
CarIdWide == CarIdInputs \cup {UnknownId, NotHexId, ShortId}
DateWide ==
    {Date(2023, 2, 1), Date(2023, 3, 3), Date(2023, 3, 4),
     Date(2024, 2, 1), Date(2024, 3, 2), Date(2024, 3, 3),
     Date(2024, 6, 1), Date(2024, 6, 10), Date(2024, 6, 11),
     Date(2024, 7, 1), Date(2024, 7, 2),
     Date(2024, 9, 30), Date(2024, 10, 1),
     Date(2024, 12, 15), Date(2025, 1, 14), Date(2025, 1, 15)}

\* the Car model of schemas.py
Car == [make : Makes]

NoPayload ==
    [car_id |-> <<>>, customer_name |-> "",
     start_date |-> Date(1, 1, 1), end_date |-> Date(1, 1, 1)]

NoResponse == [status |-> 0, detail |-> "", id |-> <<>>]

\* raise HTTPException(status_code, detail)
HTTPException(status_code, detail) ==
    [status |-> status_code, detail |-> detail, id |-> <<>>]

\* return {"id": inserted_id} under status_code=201
Created(inserted_id) == [status |-> 201, detail |-> "", id |-> inserted_id]

InvalidRange == HTTPException(400, "End date cannot be before start date")

\* the length error raised with the order error's detail
RentalTooLong_SameDetail == HTTPException(400, "End date cannot be before start date")

RentalTooLong == HTTPException(400, "Max rental length is 30 days")
CarNotFound == HTTPException(404, "Car not found")
DateConflict ==
    HTTPException(409, "Selected dates overlap with an existing booking for this car")

(* ------------------------------- store -------------------------------- *)

\* db[collection].find_one(filter): the documents the filter matches; the
\* handler only tests whether there is one
FindCar(oid) == {c \in car : c._id = oid}

\* the filter with strict comparisons: ranges that only touch do not match
OverlapFilter_Strict(b, car_id, new_start, new_end) ==
    /\ b.car_id = car_id
    /\ StrLe(b.start_date, new_end) /\ b.start_date # new_end
    /\ StrGe(b.end_date, new_start) /\ b.end_date # new_start

\* the filter without its second range comparison
OverlapFilter_StartOnly(b, car_id, new_start, new_end) ==
    /\ b.car_id = car_id
    /\ StrLe(b.start_date, new_end)

\* the filter without the equality on car_id
OverlapFilter_AnyCar(b, car_id, new_start, new_end) ==
    /\ StrLe(b.start_date, new_end)
    /\ StrGe(b.end_date, new_start)

\* the filter with $lte and $gte exchanged
OverlapFilter_Swapped(b, car_id, new_start, new_end) ==
    /\ b.car_id = car_id
    /\ StrGe(b.start_date, new_end)
    /\ StrLe(b.end_date, new_start)

\* the filter of the overlap query: equality on car_id and the two range
\* comparisons on the stored date strings
OverlapFilter(b, car_id, new_start, new_end) ==
    /\ b.car_id = car_id
    /\ StrLe(b.start_date, new_end)
    /\ StrGe(b.end_date, new_start)

FindOverlap(car_id, new_start, new_end) ==
    {b \in booking : OverlapFilter(b, car_id, new_start, new_end)}

\* create_document(collection, data): one insert_one, the generated _id
\* returned as a string
CreateDocumentId(coll, fill) == NewOid(fill, Cardinality(coll) + 1)

(* ------------------------------- state -------------------------------- *)

Init ==
    /\ car = {}
    /\ booking = {}
    /\ pc = [w \in Workers |-> "idle"]
    /\ req = [w \in Workers |-> NoPayload]
    /\ resp = [w \in Workers |-> NoResponse]
    /\ ops = [w \in Workers |-> <<>>]
    /\ requests = 0

Finish(w, response) ==
    /\ pc' = [pc EXCEPT ![w] = "done"]
    /\ resp' = [resp EXCEPT ![w] = response]

(* ------------------------------ add_car ------------------------------- *)

\* POST /api/cars replacing the stored car of the same make
add_car_Replaces(c) ==
    /\ Cardinality(car) < MaxCars
    /\ car' = {d \in car : d.make # c.make}
                \cup {[_id |-> CreateDocumentId(car, 10), make |-> c.make]}
    /\ UNCHANGED <<booking, pc, req, resp, ops, requests>>

\* POST /api/cars
add_car(c) ==
    /\ Cardinality(car) < MaxCars
    /\ car' = car \cup {[_id |-> CreateDocumentId(car, 10), make |-> c.make]}
    /\ UNCHANGED <<booking, pc, req, resp, ops, requests>>

(* --------------------------- create_booking --------------------------- *)

\* the length of the rental in days, both ends counted
Delta(payload) == DaysBetween(payload.end_date, payload.start_date) + 1

\* the bound as the error message words it
MaxDelta_AsMessage == 30

MaxDelta == 31

\* the date checks without the order check
CheckDates_NoOrder(payload) ==
    IF Delta(payload) > MaxDelta THEN RentalTooLong ELSE NoResponse

\* the date checks without the length check
CheckDates_NoLength(payload) ==
    IF DateLt(payload.end_date, payload.start_date) THEN InvalidRange
    ELSE NoResponse

\* the date checks: the error raised, or NoResponse when both pass
CheckDates(payload) ==
    IF DateLt(payload.end_date, payload.start_date) THEN InvalidRange
    ELSE IF Delta(payload) > MaxDelta THEN RentalTooLong
    ELSE NoResponse

\* the car lookup with an empty filter
LookupCar_NoFilter(car_id) ==
    IF ObjectIdIsValid(car_id) THEN car ELSE {}

\* the car lookup: find_one on car by ObjectId when the id is valid, else None
LookupCar(car_id) ==
    IF ObjectIdIsValid(car_id) THEN FindCar(ObjectId(car_id)) ELSE {}

\* the same steps with the car lookup ahead of the date checks
create_booking_validate_CarFirst(w, payload) ==
    /\ pc[w] = "idle"
    /\ \A v \in Workers : Before(v, w) => pc[v] # "idle"
    /\ requests < MaxRequests
    /\ requests' = requests + 1
    /\ req' = [req EXCEPT ![w] = payload]
    /\ ops' = [ops EXCEPT ![w] = <<"car.find_one">>]
    /\ IF LookupCar(payload.car_id) = {}
       THEN Finish(w, CarNotFound)
       ELSE IF CheckDates(payload) # NoResponse
            THEN Finish(w, CheckDates(payload))
            ELSE /\ pc' = [pc EXCEPT ![w] = "overlap"]
                 /\ resp' = [resp EXCEPT ![w] = NoResponse]
    /\ UNCHANGED <<car, booking>>

\* POST /api/bookings, from the parsed payload to the car lookup
create_booking_validate(w, payload) ==
    /\ pc[w] = "idle"
    /\ \A v \in Workers : Before(v, w) => pc[v] # "idle"
    /\ requests < MaxRequests
    /\ requests' = requests + 1
    /\ req' = [req EXCEPT ![w] = payload]
    /\ IF CheckDates(payload) # NoResponse
       THEN /\ Finish(w, CheckDates(payload))
            /\ ops' = [ops EXCEPT ![w] = <<>>]
       ELSE /\ ops' = [ops EXCEPT ![w] = <<"car.find_one">>]
            /\ IF LookupCar(payload.car_id) = {}
               THEN Finish(w, CarNotFound)
               ELSE /\ pc' = [pc EXCEPT ![w] = "overlap"]
                    /\ resp' = [resp EXCEPT ![w] = NoResponse]
    /\ UNCHANGED <<car, booking>>

\* the document handed to create_document: model_dump() with both dates
\* replaced by their isoformat strings
BookingData(payload) ==
    [car_id |-> payload.car_id, customer_name |-> payload.customer_name,
     start_date |-> IsoFormat(payload.start_date),
     end_date |-> IsoFormat(payload.end_date)]

InsertBooking(data) ==
    booking \cup
      {[_id |-> CreateDocumentId(booking, 11), car_id |-> data.car_id,
        customer_name |-> data.customer_name,
        start_date |-> data.start_date, end_date |-> data.end_date]}

\* the booking written before the overlap query decides
create_booking_overlap_WritesFirst(w) ==
    /\ pc[w] = "overlap"
    /\ ops' = [ops EXCEPT ![w] = Append(@, "booking.find_one")]
    /\ booking' = InsertBooking(BookingData(req[w]))
    /\ IF FindOverlap(req[w].car_id, IsoFormat(req[w].start_date),
                      IsoFormat(req[w].end_date)) # {}
       THEN Finish(w, DateConflict)
       ELSE Finish(w, Created(OidStr(CreateDocumentId(booking, 11))))
    /\ UNCHANGED <<car, req, requests>>

\* the overlap query answering a resubmitted candidate with the stored
\* booking's identifier
create_booking_overlap_Idempotent(w) ==
    /\ pc[w] = "overlap"
    /\ ops' = [ops EXCEPT ![w] = Append(@, "booking.find_one")]
    /\ LET found == FindOverlap(req[w].car_id, IsoFormat(req[w].start_date),
                                IsoFormat(req[w].end_date))
           same == {b \in found : /\ b.start_date = IsoFormat(req[w].start_date)
                                  /\ b.end_date = IsoFormat(req[w].end_date)
                                  /\ b.customer_name = req[w].customer_name}
       IN  IF same # {}
           THEN \E b \in same : Finish(w, Created(OidStr(b._id)))
           ELSE IF found # {} THEN Finish(w, DateConflict)
           ELSE /\ pc' = [pc EXCEPT ![w] = "insert"]
                /\ UNCHANGED resp
    /\ UNCHANGED <<car, booking, req, requests>>

\* the overlap query on booking
create_booking_overlap(w) ==
    /\ pc[w] = "overlap"
    /\ ops' = [ops EXCEPT ![w] = Append(@, "booking.find_one")]
    /\ IF FindOverlap(req[w].car_id, IsoFormat(req[w].start_date),
                      IsoFormat(req[w].end_date)) # {}
       THEN Finish(w, DateConflict)
       ELSE /\ pc' = [pc EXCEPT ![w] = "insert"]
            /\ UNCHANGED resp
    /\ UNCHANGED <<car, booking, req, requests>>

\* the insert made only if the overlap query, run again with it, finds nothing
create_booking_insert_Rechecked(w) ==
    /\ pc[w] = "insert"
    /\ ops' = [ops EXCEPT ![w] = Append(@, "booking.insert_one")]
    /\ IF FindOverlap(req[w].car_id, IsoFormat(req[w].start_date),
                      IsoFormat(req[w].end_date)) # {}
       THEN /\ Finish(w, DateConflict)
            /\ UNCHANGED booking
       ELSE /\ booking' = InsertBooking(BookingData(req[w]))
            /\ Finish(w, Created(OidStr(CreateDocumentId(booking, 11))))
    /\ UNCHANGED <<car, req, requests>>

\* the insert and the 201 response
create_booking_insert(w) ==
    /\ pc[w] = "insert"
    /\ booking' = InsertBooking(BookingData(req[w]))
    /\ ops' = [ops EXCEPT ![w] = Append(@, "booking.insert_one")]
    /\ Finish(w, Created(OidStr(CreateDocumentId(booking, 11))))
    /\ UNCHANGED <<car, req, requests>>

\* the response is sent and the handler's frame is gone
Return(w) ==
    /\ pc[w] = "done"
    /\ pc' = [pc EXCEPT ![w] = "idle"]
    /\ req' = [req EXCEPT ![w] = NoPayload]
    /\ resp' = [resp EXCEPT ![w] = NoResponse]
    /\ ops' = [ops EXCEPT ![w] = <<>>]
    /\ UNCHANGED <<car, booking, requests>>

Next ==
    \/ \E c \in Car : add_car(c)
    \/ \E w \in Workers, payload \in Booking(CarIdInputs, DateInputs) :
          create_booking_validate(w, payload)
    \/ \E w \in Workers : create_booking_overlap(w)
    \/ \E w \in Workers : create_booking_insert(w)
    \/ \E w \in Workers : Return(w)

\* concurrent requests
Spec == Init /\ [][Next]_vars

\* the overlap step inside a mutual-exclusion scope keyed by car_id that a
\* request enters before its overlap read and leaves after its insert (or
\* with its DateConflict): the step waits while another request of the same
\* car_id is between its read and its insert
create_booking_overlap_scoped(w) ==
    /\ \A v \in Workers \ {w} :
          pc[v] = "insert" => req[v].car_id # req[w].car_id
    /\ create_booking_overlap(w)

NextScoped ==
    \/ \E c \in Car : add_car(c)
    \/ \E w \in Workers, payload \in Booking(CarIdInputs, DateInputs) :
          create_booking_validate(w, payload)
    \/ \E w \in Workers : create_booking_overlap_scoped(w)
    \/ \E w \in Workers : create_booking_insert(w)
    \/ \E w \in Workers : Return(w)

\* concurrent requests, the read and the insert of each in a per-car scope
SpecScoped == Init /\ [][NextScoped]_vars

NextSerial ==
    \/ \E c \in Car : add_car(c)
    \/ \E payload \in Booking(CarIdSerial, DateSerial) :
          create_booking_validate("w1", payload)
    \/ create_booking_overlap("w1")
    \/ create_booking_insert("w1")
    \/ Return("w1")

\* one request after the other: no store operation of another request falls
\* between a request's operations
SpecSerial == Init /\ [][NextSerial]_vars

\* a store an earlier run of the service left: every car, and no booking or
\* the booking of the first car for 2024-06-01 to 2024-06-10
StoredBooking ==
    [_id |-> NewOid(11, 1), car_id |-> OidStr(CarOid(1)), customer_name |-> "Ann",
     start_date |-> IsoFormat(Date(2024, 6, 1)),
     end_date |-> IsoFormat(Date(2024, 6, 10))]

InitOne ==
    /\ car = {[_id |-> CarOid(n), make |-> "Skoda"] : n \in 1..MaxCars}
    /\ booking \in {{}, {StoredBooking}}
    /\ pc = [w \in Workers |-> "idle"]
    /\ req = [w \in Workers |-> NoPayload]
    /\ resp = [w \in Workers |-> NoResponse]
    /\ ops = [w \in Workers |-> <<>>]
    /\ requests = MaxRequests - 1

NextOne ==
    \/ \E payload \in Booking(CarIdWide, DateWide) :
          create_booking_validate("w1", payload)
    \/ create_booking_overlap("w1")
    \/ create_booking_insert("w1")
    \/ Return("w1")

\* a single admission request against a stored state
SpecOne == InitOne /\ [][NextOne]_vars

(* ---------------------- list_cars, list_bookings ---------------------- *)

\* the response of GET /api/cars: each car document without its _id, with
\* the _id's string form under id
ListCarsOut == {[id |-> OidStr(d._id), make |-> d.make] : d \in car}

\* the response of GET /api/bookings: each booking document with its _id
\* popped and its string form put under id
ListBookingsOut ==
    {[id |-> OidStr(d._id), car_id |-> d.car_id,
      customer_name |-> d.customer_name,
      start_date |-> d.start_date, end_date |-> d.end_date] : d \in booking}

\* GET /api/cars: one read of the car collection; the response leaves with
\* the call
list_cars ==
    /\ Cardinality(ListCarsOut) = Cardinality(car)
    /\ UNCHANGED vars

\* GET /api/bookings: one read of the booking collection; the documents
\* changed are the ones the read returned, not the stored ones
list_bookings ==
    /\ Cardinality(ListBookingsOut) = Cardinality(booking)
    /\ UNCHANGED vars

(* ------------------------------ seed_cars ----------------------------- *)

\* the makes of the sample cars, in the order of the list
Sample == <<"Skoda", "Volkswagen", "Toyota", "Hyundai", "Tesla">>

\* return {"status": "already-seeded"}
AlreadySeeded == [status |-> 200, detail |-> "already-seeded", id |-> <<>>]

\* return {"status": "seeded", "count": len(sample)}
Seeded == [status |-> 200, detail |-> "seeded", id |-> <<>>]

\* the count read with its result ignored
seed_cars_count_Unchecked(w) ==
    /\ pc[w] = "idle"
    /\ \A v \in Workers : Before(v, w) => pc[v] # "idle"
    /\ requests < MaxRequests
    /\ requests' = requests + 1
    /\ ops' = [ops EXCEPT ![w] = <<"car.count_documents">>]
    /\ pc' = [pc EXCEPT ![w] = "seed"]
    /\ UNCHANGED <<car, booking, req, resp>>

\* POST /api/seed, the count read: 'already-seeded' when the car collection
\* holds a document, else on to the loop over the samples
seed_cars_count(w) ==
    /\ pc[w] = "idle"
    /\ \A v \in Workers : Before(v, w) => pc[v] # "idle"
    /\ requests < MaxRequests
    /\ requests' = requests + 1
    /\ ops' = [ops EXCEPT ![w] = <<"car.count_documents">>]
    /\ IF Cardinality(car) > 0
       THEN Finish(w, AlreadySeeded)
       ELSE /\ pc' = [pc EXCEPT ![w] = "seed"]
            /\ resp' = [resp EXCEPT ![w] = NoResponse]
    /\ UNCHANGED <<car, booking, req>>

\* POST /api/seed, one turn of the loop: create_document of the next sample
\* (the call has made one store operation for the count and one for each
\* sample inserted so far), and the response after the last
seed_cars_insert(w) ==
    /\ pc[w] = "seed"
    /\ car' = car \cup {[_id |-> CreateDocumentId(car, 10),
                         make |-> Sample[Len(ops[w])]]}
    /\ ops' = [ops EXCEPT ![w] = Append(@, "car.insert_one")]
    /\ IF Len(ops[w]) = Len(Sample)
       THEN Finish(w, Seeded)
       ELSE UNCHANGED <<pc, resp>>
    /\ UNCHANGED <<booking, req, requests>>

\* the requests of the whole service
CarIdService == {OidStr(CarOid(1))}
DateService == {Date(2024, 6, 1), Date(2024, 6, 2)}

NextService ==
    \/ \E c \in Car : add_car(c)
    \/ list_cars
    \/ list_bookings
    \/ \E w \in Workers : seed_cars_count(w)
    \/ \E w \in Workers : seed_cars_insert(w)
    \/ \E w \in Workers, payload \in Booking(CarIdService, DateService) :
          create_booking_validate(w, payload)
    \/ \E w \in Workers : create_booking_overlap(w)
    \/ \E w \in Workers : create_booking_insert(w)
    \/ \E w \in Workers : Return(w)

\* every endpoint, concurrent requests
SpecService == Init /\ [][NextService]_vars

(* ------------------------- reading the store -------------------------- *)

\* the number a string of decimal digits denotes
RECURSIVE Num(_)
Num(s) == IF s = <<>> THEN 0 ELSE 10 * Num(SubSeq(s, 1, Len(s) - 1)) + IndexOf(DecDigits, s[Len(s)]) - 1

\* the date a stored YYYY-MM-DD string denotes
DateOfStr(s) == Date(Num(SubSeq(s, 1, 4)), Num(SubSeq(s, 6, 7)), Num(SubSeq(s, 9, 10)))

DaysInMonth(y, m) ==
    IF m = 2 THEN (IF IsLeap(y) THEN 29 ELSE 28)
    ELSE IF m \in {4, 6, 9, 11} THEN 30 ELSE 31

\* the calendar days of the inclusive range [s, e], month by month
DaysOf(s, e) ==
    UNION {UNION {{Date(y, m, d) :
                      d \in (IF y = s.year /\ m = s.month THEN s.day ELSE 1)
                            ..(IF y = e.year /\ m = e.month THEN e.day
                               ELSE DaysInMonth(y, m))} :
                  m \in (IF y = s.year THEN s.month ELSE 1)
                        ..(IF y = e.year THEN e.month ELSE 12)} :
           y \in s.year..e.year}

\* two stored bookings share a calendar day
ShareDay(b1, b2) ==
    DaysOf(DateOfStr(b1.start_date), DateOfStr(b1.end_date))
        \cap DaysOf(DateOfStr(b2.start_date), DateOfStr(b2.end_date)) # {}

\* the stored booking and the payload share a calendar day
Clash(b, payload) ==
    DaysOf(DateOfStr(b.start_date), DateOfStr(b.end_date))
        \cap DaysOf(payload.start_date, payload.end_date) # {}

\* the string names no car document: it is not 24 hex digits, or no car
\* carries the identifier it spells, in either case of the letters
NoSuchCar(s) ==
    \/ Len(s) # 24
    \/ \E i \in 1..Len(s) : s[i] \notin Range(HexLower) \cup Range(HexUpper)
    \/ \A c \in car : UpperStr(OidStr(c._id)) # UpperStr(s)

Inserted(w) == \E i \in 1..Len(ops[w]) : ops[w][i] = "booking.insert_one"

(* ------------------------------- claims ------------------------------- *)

\* C1: in every reachable state, for every car identifier, no two persisted
\* bookings have inclusive date ranges that share a calendar day.
C1_NoTwoBookingsShareDay ==
    \A b1, b2 \in booking :
        (b1 # b2 /\ b1.car_id = b2.car_id) => ~ShareDay(b1, b2)

\* C2: the overlap read and the insert are separate store operations: a
\* request that has passed its read inserts its booking and returns an
\* identifier whatever the store has come to hold since, so that two
\* requests for the same car and overlapping dates can both be admitted.
C2_InsertAfterReadUnchecked ==
    [][\A w \in Workers :
          (pc[w] = "insert" /\ pc'[w] # "insert")
              => /\ pc'[w] = "done"
                 /\ resp'[w].status = 201
                 /\ \E b \in booking' \ booking :
                       /\ booking' = booking \cup {b}
                       /\ resp'[w].id = OidStr(b._id)
                       /\ b.car_id = req[w].car_id
                       /\ b.start_date = IsoFormat(req[w].start_date)
                       /\ b.end_date = IsoFormat(req[w].end_date)]_vars

\* two requests running together both got an identifier for bookings of one
\* car that share a day
C2_DoubleBooked ==
    /\ pc["w1"] = "done" /\ pc["w2"] = "done"
    /\ resp["w1"].status = 201 /\ resp["w2"].status = 201
    /\ req["w1"].car_id = req["w2"].car_id
    /\ \E b1, b2 \in booking :
          /\ b1 # b2
          /\ OidStr(b1._id) = resp["w1"].id /\ OidStr(b2._id) = resp["w2"].id
          /\ b1.car_id = b2.car_id
          /\ ShareDay(b1, b2)

\* C3: a candidate with end_date < start_date fails with InvalidRange (400,
\* "End date cannot be before start date") whatever its car identifier and
\* whatever the store holds, and nothing is inserted.
C3_InvalidRange ==
    [][\A w \in Workers :
          /\ (pc[w] = "idle" /\ pc'[w] # "idle"
                 /\ DateLt(req'[w].end_date, req'[w].start_date))
                => /\ pc'[w] = "done"
                   /\ resp'[w].status = 400
                   /\ resp'[w].detail = "End date cannot be before start date"
                   /\ booking' = booking /\ car' = car
          /\ (pc[w] = "done" /\ pc'[w] # "done" /\ resp[w].status = 400)
               => booking' = booking]_vars

C3_Rejected ==
    /\ pc["w1"] = "done"
    /\ DateLt(req["w1"].end_date, req["w1"].start_date)
    /\ resp["w1"] = InvalidRange
    /\ LookupCar(req["w1"].car_id) # {}
    /\ booking # {}

\* C4: for a candidate with end_date >= start_date the length check counts
\* the days of the inclusive range, (end_date - start_date in days) + 1: a
\* count of 31 or less passes it and a count of 32 or more fails with
\* RentalTooLong.
C4_LengthCheck ==
    [][\A w \in Workers :
          (pc[w] = "idle" /\ pc'[w] # "idle"
              /\ DateLe(req'[w].start_date, req'[w].end_date))
              => LET n == Cardinality(DaysOf(req'[w].start_date, req'[w].end_date))
                 IN  /\ Delta(req'[w]) = n
                     /\ n <= 31 => resp'[w].status # 400
                     /\ n >= 32 => (pc'[w] = "done" /\ resp'[w] = RentalTooLong)]_vars

\* a range of exactly 31 days has passed the length check
C4_ThirtyOneDaysPass ==
    /\ pc["w1"] = "overlap"
    /\ Cardinality(DaysOf(req["w1"].start_date, req["w1"].end_date)) = 31

\* C5 as stated: a candidate whose car identifier is malformed or references
\* no Car record fails with CarNotFound whatever its dates.
C5_CarNotFoundWhateverDates ==
    \A w \in Workers :
        (pc[w] = "done" /\ NoSuchCar(req[w].car_id)) => resp[w] = CarNotFound

\* C5, amended: such a candidate fails with CarNotFound when its dates pass
\* the order and the length check, with InvalidRange when end_date <
\* start_date and with RentalTooLong when the range has more than 31 days;
\* in every case nothing is inserted.
C5_CarNotFoundAfterDateChecks ==
    \A w \in Workers :
        (pc[w] = "done" /\ NoSuchCar(req[w].car_id))
            => /\ resp[w] =
                    IF DateLt(req[w].end_date, req[w].start_date) THEN InvalidRange
                    ELSE IF Cardinality(DaysOf(req[w].start_date, req[w].end_date)) > 31
                         THEN RentalTooLong
                    ELSE CarNotFound
               /\ ~Inserted(w)
               /\ booking \subseteq {StoredBooking}

\* a well-formed identifier of no car, with dates that pass both checks, was
\* answered with CarNotFound
C5_UnknownCarRejected ==
    /\ pc["w1"] = "done"
    /\ req["w1"].car_id = UnknownId
    /\ NoSuchCar(req["w1"].car_id)
    /\ DateLe(req["w1"].start_date, req["w1"].end_date)
    /\ resp["w1"] = CarNotFound

(* ------------------- claims on the overlap check --------------------- *)

\* the stored booking is of the identifier the payload names
SameCarId(b, payload) == b.car_id = payload.car_id

\* the stored booking carries exactly the payload's fields
SameCandidate(b, payload) ==
    /\ b.car_id = payload.car_id
    /\ b.customer_name = payload.customer_name
    /\ DateOfStr(b.start_date) = payload.start_date
    /\ DateOfStr(b.end_date) = payload.end_date

\* the payload starts on the booking's last day or ends on its first
Touches(b, payload) ==
    \/ payload.start_date = DateOfStr(b.end_date)
    \/ payload.end_date = DateOfStr(b.start_date)

\* the payload starts the day after the booking's last day, or ends the day
\* before its first
Adjacent(b, payload) ==
    \/ /\ DateLt(DateOfStr(b.end_date), payload.start_date)
       /\ DaysOf(DateOfStr(b.end_date), payload.start_date)
             = {DateOfStr(b.end_date), payload.start_date}
    \/ /\ DateLt(payload.end_date, DateOfStr(b.start_date))
       /\ DaysOf(payload.end_date, DateOfStr(b.start_date))
             = {payload.end_date, DateOfStr(b.start_date)}

\* the payload passes the date checks and names a car document
ValidCandidate(payload) ==
    /\ DateLe(payload.start_date, payload.end_date)
    /\ Cardinality(DaysOf(payload.start_date, payload.end_date)) <= 31
    /\ ~NoSuchCar(payload.car_id)

\* the bookings the store held before worker w's request wrote its own
Others(w) == {b \in booking : OidStr(b._id) # resp[w].id}

\* the booking worker w's request was answered with is in the store
OwnStored(w) ==
    \E b \in booking : OidStr(b._id) = resp[w].id /\ SameCandidate(b, req[w])

C7_AdjacentAdmitted ==
    \A w \in Workers :
        (/\ pc[w] = "done"
         /\ ValidCandidate(req[w])
         /\ \E b \in Others(w) :
               /\ {x \in Others(w) : SameCarId(x, req[w])} = {b}
               /\ Adjacent(b, req[w]))
            => /\ resp[w].status = 201
               /\ OwnStored(w)

\* a candidate starting on the first day of the month after the stored
\* booking's last day was admitted
C7_DayAfterAdmitted ==
    /\ pc["w1"] = "done"
    /\ resp["w1"].status = 201
    /\ OwnStored("w1")
    /\ \E b \in Others("w1") :
          /\ {x \in Others("w1") : SameCarId(x, req["w1"])} = {b}
          /\ DateLt(DateOfStr(b.end_date), req["w1"].start_date)
          /\ Adjacent(b, req["w1"])
          /\ DateOfStr(b.end_date).month # req["w1"].start_date.month

\* the stored booking is of another car document than the payload's
OtherCar(b, payload) == UpperStr(b.car_id) # UpperStr(payload.car_id)

\* C8: the overlap check is scoped per car: a valid candidate for car D is
\* answered with DateConflict only if a booking of D shares a day with it;
\* when the bookings it shares a day with are all of other cars, it is
\* admitted.
C8_ScopedPerCar ==
    [][\A w \in Workers :
          /\ (pc[w] = "overlap" /\ pc'[w] # "overlap"
                /\ \A b \in booking : Clash(b, req[w]) => OtherCar(b, req[w]))
               => /\ pc'[w] = "insert"
                  /\ resp'[w] # DateConflict
          /\ (pc[w] = "insert" /\ pc'[w] # "insert")
               => /\ resp'[w].status = 201
                  /\ \E b \in booking' \ booking :
                        OidStr(b._id) = resp'[w].id /\ SameCandidate(b, req[w])]_vars

\* a candidate for one car was admitted for days a stored booking of
\* another car holds
C8_OtherCarAdmitted ==
    /\ pc["w1"] = "done"
    /\ resp["w1"].status = 201
    /\ OwnStored("w1")
    /\ \E b \in Others("w1") : Clash(b, req["w1"]) /\ OtherCar(b, req["w1"])
    /\ \A b \in Others("w1") : Clash(b, req["w1"]) => OtherCar(b, req["w1"])

(* ---------------------- claims on the store's frame ------------------- *)

\* the inserts into booking worker w's request has made
InsertsOf(o) == Cardinality({i \in 1..Len(o) : o[i] = "booking.insert_one"})

\* C9: an admission request changes the store only in its final persist
\* step: a request that returns an identifier has made exactly one insert
\* into booking and changed nothing else, and a request that fails with
\* InvalidRange, RentalTooLong, CarNotFound or DateConflict leaves the car
\* and the booking collection as they were.
C9_OnlyPersistWrites ==
    [][\A w \in Workers :
          /\ (pc[w] # "done" /\ pc'[w] = "done" /\ resp'[w].status = 201)
               => /\ car' = car
                  /\ booking \subseteq booking'
                  /\ Cardinality(booking' \ booking) = 1
                  /\ InsertsOf(ops'[w]) = 1
          /\ (pc[w] # "done" /\ pc'[w] = "done" /\ resp'[w].status # 201)
               => /\ resp'[w] \in {InvalidRange, RentalTooLong, CarNotFound, DateConflict}
                  /\ car' = car
                  /\ booking' = booking
                  /\ InsertsOf(ops'[w]) = 0
          /\ (pc[w] # pc'[w] /\ pc'[w] # "done")
               => /\ car' = car
                  /\ booking' = booking
                  /\ InsertsOf(ops'[w]) = 0]_vars

\* one request was admitted and the other, running with it, failed with
\* DateConflict; the store holds the one booking
C9_OneInsertOneFailure ==
    /\ pc["w1"] = "done" /\ pc["w2"] = "done"
    /\ resp["w1"].status = 201
    /\ resp["w2"] = DateConflict
    /\ Cardinality(booking) = 1

\* C10: admission is not idempotent: the same valid candidate submitted
\* again after it was admitted fails with DateConflict, is never answered
\* with the stored booking's identifier, and the store keeps exactly one
\* booking of that candidate.
C10_NotIdempotent ==
    /\ [](\A b1, b2 \in booking :
             (b1.car_id = b2.car_id /\ b1.customer_name = b2.customer_name
                /\ b1.start_date = b2.start_date /\ b1.end_date = b2.end_date)
                => b1 = b2)
    /\ [][\A w \in Workers :
            /\ (pc[w] = "overlap" /\ pc'[w] # "overlap"
                   /\ \E b \in booking : SameCandidate(b, req[w]))
                  => /\ pc'[w] = "done"
                     /\ resp'[w] = DateConflict
                     /\ \A b \in booking : resp'[w].id # OidStr(b._id)
                     /\ booking' = booking
            /\ (pc[w] = "overlap" /\ pc'[w] # "overlap"
                   /\ \A b \in booking : SameCarId(b, req[w]) => ~Clash(b, req[w]))
                  => pc'[w] = "insert"
            /\ (pc[w] = "insert" /\ pc'[w] # "insert")
                  => /\ resp'[w].status = 201
                     /\ \E b \in booking' \ booking :
                           /\ SameCandidate(b, req[w])
                           /\ resp'[w].id = OidStr(b._id)]_vars

\* the second submission of an admitted candidate was answered with
\* DateConflict and the store holds the first submission's booking alone
C10_SecondRejected ==
    /\ pc["w1"] = "done"
    /\ resp["w1"] = DateConflict
    /\ requests = 2
    /\ \E b \in booking : booking = {b} /\ SameCandidate(b, req["w1"])

(* ----------------------- claims on the outcomes ----------------------- *)

Errors == {InvalidRange, RentalTooLong, CarNotFound, DateConflict}

\* a stored booking of the payload's car_id, other than worker w's own,
\* shares a day with it
ClashesStored(w) ==
    \E b \in Others(w) : SameCarId(b, req[w]) /\ Clash(b, req[w])

TooManyDays(payload) ==
    Cardinality(DaysOf(payload.start_date, payload.end_date)) > 31

\* C11: the four failure kinds reach the caller as four results that differ
\* pairwise in status code and detail, none of them a success, and each
\* admission request ends in exactly one of five outcomes, an identifier or
\* the error of its failure kind.
C11_DistinctOutcomes ==
    /\ Cardinality({<<r.status, r.detail>> : r \in Errors}) = 4
    /\ \A r \in Errors : r.status \in 400..499 /\ r.id = <<>>
    /\ \A w \in Workers :
          pc[w] = "done"
             => /\ resp[w] \in Errors \/ (resp[w].status = 201 /\ OwnStored(w))
                /\ resp[w] = InvalidRange
                      <=> DateLt(req[w].end_date, req[w].start_date)
                /\ resp[w] = RentalTooLong <=> TooManyDays(req[w])
                /\ resp[w] = CarNotFound
                      <=> (/\ DateLe(req[w].start_date, req[w].end_date)
                           /\ ~TooManyDays(req[w])
                           /\ NoSuchCar(req[w].car_id))
                /\ resp[w] = DateConflict
                      <=> (ValidCandidate(req[w]) /\ ClashesStored(w))
                /\ resp[w].status = 201
                      <=> (ValidCandidate(req[w]) /\ ~ClashesStored(w))

\* a request was answered with the length error, which shares its status
\* code with the order error and differs from it in its detail
C11_TooLongAnswered ==
    /\ pc["w1"] = "done"
    /\ resp["w1"] = RentalTooLong
    /\ resp["w1"].status = InvalidRange.status
    /\ resp["w1"].detail # InvalidRange.detail

\* C12: every persisted booking has end_date >= start_date and spans at
\* most 31 days counted inclusively, and its car_id references a Car
\* document of the car collection: the car is there when the booking is
\* inserted and no step removes a car.
C12_PersistedBookingsValid ==
    /\ [](\A b \in booking :
            LET s == DateOfStr(b.start_date)
                e == DateOfStr(b.end_date)
            IN  DateLe(s, e) /\ DaysBetween(e, s) + 1 <= 31)
    /\ [][/\ car \subseteq car'
          /\ \A b \in booking' \ booking : ~NoSuchCar(b.car_id)
         ]_vars

\* two bookings are persisted, one of them of thirty days and one under the
\* upper-case spelling of its car's identifier
C12_TwoPersisted ==
    /\ Cardinality(booking) = 2
    /\ \E b \in booking :
          Cardinality(DaysOf(DateOfStr(b.start_date), DateOfStr(b.end_date))) = 30
    /\ \E b \in booking : b.car_id = UpperStr(OidStr(CarOid(1)))

\* the store operations of a whole admission, in the order of the handler
AdmissionOps == <<"car.find_one", "booking.find_one", "booking.insert_one">>

\* the error of the first step the payload fails, NoResponse when it fails none
FirstFailure(w) ==
    IF DateLt(req[w].end_date, req[w].start_date) THEN InvalidRange
    ELSE IF TooManyDays(req[w]) THEN RentalTooLong
    ELSE IF NoSuchCar(req[w].car_id) THEN CarNotFound
    ELSE IF ClashesStored(w) THEN DateConflict
    ELSE NoResponse

\* the store operations made up to and including the step that ended the call
OpsUpTo(response) ==
    IF response \in {InvalidRange, RentalTooLong} THEN <<>>
    ELSE IF response = CarNotFound THEN SubSeq(AdmissionOps, 1, 1)
    ELSE IF response = DateConflict THEN SubSeq(AdmissionOps, 1, 2)
    ELSE AdmissionOps

\* C13: the steps run in the order date-order, length, car-existence,
\* overlap, persist and stop at the first failure: a finished request has
\* the error of the earliest step its candidate fails (an identifier when it
\* fails none), its store operations are exactly those of the steps up to
\* that one, and the booking collection is not read when an earlier step
\* failed.
C13_FirstFailureWins ==
    \A w \in Workers :
        /\ \E n \in 0..Len(AdmissionOps) : ops[w] = SubSeq(AdmissionOps, 1, n)
        /\ pc[w] = "done"
             => /\ IF FirstFailure(w) = NoResponse
                   THEN resp[w].status = 201
                   ELSE resp[w] = FirstFailure(w)
                /\ ops[w] = OpsUpTo(resp[w])
                /\ resp[w] \in {InvalidRange, RentalTooLong, CarNotFound}
                      => \A i \in 1..Len(ops[w]) : ops[w][i] # "booking.find_one"

\* a candidate of more than 31 days that also shares a day with a stored
\* booking of its car_id was answered with the length error, with no store
\* operation made
C13_TooLongBeforeConflict ==
    /\ pc["w1"] = "done"
    /\ TooManyDays(req["w1"])
    /\ \E b \in booking : SameCarId(b, req["w1"]) /\ Clash(b, req["w1"])
    /\ resp["w1"] = RentalTooLong
    /\ ops["w1"] = <<>>

(* ----------------------- claims on the overlap query ----------------------- *)

\* existing.start_date <= candidate.end_date and
\* existing.end_date >= candidate.start_date, on dates
Intersects(b, payload) ==
    /\ DateLe(DateOfStr(b.start_date), payload.end_date)
    /\ DateLe(payload.start_date, DateOfStr(b.end_date))

\* C14: a candidate reaches the overlap step exactly when it passes the
\* date-order, length and car-existence checks; there it fails with
\* DateConflict if and only if the store holds a booking with the same
\* car_id whose inclusive range shares a calendar day with the candidate's
\* (existing.start_date <= candidate.end_date and existing.end_date >=
\* candidate.start_date), and otherwise it goes on to be inserted and is
\* answered with its identifier.
C14_ConflictIffSharedDay ==
    /\ [](\A w \in Workers : pc[w] \in {"overlap", "insert"} => ValidCandidate(req[w]))
    /\ [][\A w \in Workers :
            /\ (pc[w] = "idle" /\ pc'[w] # "idle")
                  => (pc'[w] = "overlap" <=> ValidCandidate(req'[w]))
            /\ (pc[w] = "overlap" /\ pc'[w] # "overlap")
                  => /\ \A b \in booking :
                           SameCarId(b, req[w])
                              => (Intersects(b, req[w]) <=> Clash(b, req[w]))
                     /\ (pc'[w] = "done" /\ resp'[w] = DateConflict)
                           <=> \E b \in booking :
                                  SameCarId(b, req[w]) /\ Clash(b, req[w])
                     /\ pc'[w] = "insert"
                           <=> ~\E b \in booking :
                                  SameCarId(b, req[w]) /\ Clash(b, req[w])
                     /\ pc'[w] \in {"done", "insert"}
            /\ (pc[w] = "insert" /\ pc'[w] # "insert")
                  => /\ pc'[w] = "done"
                     /\ resp'[w].status = 201
                     /\ \E b \in booking' \ booking :
                           /\ OidStr(b._id) = resp'[w].id
                           /\ SameCandidate(b, req[w])
       ]_vars

\* a candidate that starts inside a stored booking of its car_id and ends
\* after it was answered with DateConflict
C14_PartialOverlapRejected ==
    /\ pc["w1"] = "done"
    /\ resp["w1"] = DateConflict
    /\ \E b \in booking :
          /\ SameCarId(b, req["w1"])
          /\ DateLt(DateOfStr(b.start_date), req["w1"].start_date)
          /\ DateLt(DateOfStr(b.end_date), req["w1"].end_date)
          /\ Clash(b, req["w1"])

Canonical(s) ==
    /\ Len(s) = 10
    /\ s[5] = "-" /\ s[8] = "-"
    /\ \A i \in (1..10) \ {5, 8} : s[i] \in Range(DecDigits)
    /\ IsoFormat(DateOfStr(s)) = s

\* C16: the dates of a request serialize to the canonical zero-padded
\* YYYY-MM-DD form and parse back to themselves, <= and >= on the serialized
\* strings agree with the chronological order of the dates, the overlap
\* filter on strings matches a stored booking exactly when the typed ranges
\* intersect, and every persisted start_date and end_date is canonical.
C16_StringOrderIsDateOrder ==
    /\ \A b \in booking : Canonical(b.start_date) /\ Canonical(b.end_date)
    /\ \A w \in Workers :
          pc[w] # "idle"
             => LET new_start == IsoFormat(req[w].start_date)
                    new_end == IsoFormat(req[w].end_date)
                IN  /\ Canonical(new_start) /\ Canonical(new_end)
                    /\ DateOfStr(new_start) = req[w].start_date
                    /\ DateOfStr(new_end) = req[w].end_date
                    /\ StrLe(new_start, new_end)
                          <=> DateLe(req[w].start_date, req[w].end_date)
                    /\ StrGe(new_start, new_end)
                          <=> DateLe(req[w].end_date, req[w].start_date)
                    /\ \A b \in booking :
                          OverlapFilter(b, b.car_id, new_start, new_end)
                             <=> Intersects(b, req[w])
                    /\ (pc[w] = "done" /\ resp[w].status = 201)
                          => \E b \in booking :
                                /\ OidStr(b._id) = resp[w].id
                                /\ b.start_date = new_start
                                /\ b.end_date = new_end

\* a booking from 2024-09-30 to 2024-10-01, whose dates order the other way
\* round when written without zero padding, was admitted beside a stored
\* booking of June
C16_SeptemberToOctober ==
    /\ pc["w1"] = "done"
    /\ resp["w1"].status = 201
    /\ req["w1"].start_date = Date(2024, 9, 30)
    /\ req["w1"].end_date = Date(2024, 10, 1)
    /\ Cardinality(booking) = 2
    /\ \A b \in booking : SameCarId(b, req["w1"])

(* ----------------------- claims on the other endpoints ----------------------- *)

\* C17: no step of any request (list_cars, list_bookings, add_car,
\* seed_cars, create_booking) changes or removes a persisted car or booking:
\* each step leaves every stored document in place with its fields as they
\* were, and what it adds comes under an _id no stored document carries.
C17_StoreOnlyGrows ==
    [][/\ car \subseteq car'
       /\ booking \subseteq booking'
       /\ \A d \in car' \ car : \A c \in car : c._id # d._id
       /\ \A d \in booking' \ booking : \A b \in booking : b._id # d._id
      ]_vars

\* a seed request, an add_car request and an admission have all written:
\* the store holds the samples, one more car and a booking
C17_AllWritersActed ==
    /\ Cardinality(car) = Len(Sample) + 1
    /\ Cardinality(booking) = 1
    /\ \E w \in Workers : pc[w] = "done" /\ resp[w].status = 201

SeedInserts(w) ==
    Cardinality({i \in 1..Len(ops[w]) : ops[w][i] = "car.insert_one"})

\* C18: a seed request whose count read finds a car returns 'already-seeded'
\* with no insert and the store unchanged; one whose count read finds none
\* inserts the samples one store operation at a time, whatever the
\* collection has come to hold since, and returns 'seeded' after the last;
\* a car collection that holds a document never becomes empty, so that a
\* seed request run after another one has finished finds its samples.
C18_SeedOnlyWhenEmpty ==
    /\ [](\A w \in Workers :
            /\ (pc[w] = "done" /\ resp[w] = AlreadySeeded) => SeedInserts(w) = 0
            /\ (pc[w] = "done" /\ resp[w] = Seeded) => SeedInserts(w) = Len(Sample)
            /\ pc[w] = "seed" => SeedInserts(w) < Len(Sample))
    /\ [][/\ car # {} => car' # {}
          /\ \A w \in Workers :
                /\ (pc[w] = "idle" /\ ops'[w] = <<"car.count_documents">>)
                      => /\ car' = car /\ booking' = booking
                         /\ IF car # {}
                            THEN pc'[w] = "done" /\ resp'[w] = AlreadySeeded
                            ELSE pc'[w] = "seed"
                /\ (pc[w] = "seed" /\ ops'[w] # ops[w])
                      => /\ SeedInserts(w)' = SeedInserts(w) + 1
                         /\ \E d \in car' \ car :
                               /\ car' = car \cup {d}
                               /\ d.make = Sample[SeedInserts(w) + 1]
                         /\ booking' = booking
                         /\ pc'[w] = IF SeedInserts(w)' = Len(Sample)
                                     THEN "done" ELSE "seed"
                         /\ pc'[w] = "done" => resp'[w] = Seeded
         ]_vars

\* two seed requests that both read an empty collection have both inserted
\* the samples: the store holds each of them twice
C18_SeededTwice ==
    /\ \A w \in Workers : pc[w] = "done" /\ resp[w] = Seeded
    /\ \A i \in 1..Len(Sample) :
          Cardinality({d \in car : d.make = Sample[i]}) = 2

====
